---------------------------- MODULE Spec2Model ----------------------------
(***************************************************************************)
(* Emotion -> Spotify player: the per-frame emotion aggregation            *)
(* (utils/camera.py), the token cache and playback dispatch                *)
(* (utils/spotify_client.py), the emotion -> playlist table                *)
(* (utils/emotion_to_song.py) and the frame loop (main.py).                *)
(*                                                                         *)
(* Confidences are percentages (0.45 is 45), times are epoch seconds.      *)
(* Python's None is the string NONE where a label is expected and a        *)
(* record with ok/has = FALSE where a value may be missing or an           *)
(* exception may be raised.                                                *)
(***************************************************************************)
EXTENDS Integers, Sequences, FiniteSets, TLC

VARIABLES
    frame,      \* camera.py: what the locator and the classifier answer for the frame
    dd,         \* camera.py: the outcome of the last detect_and_draw call
    cache,      \* spotify_client.py: the file at CACHE_PATH
    writable,   \* whether the file at CACHE_PATH can be written and removed
    now,        \* int(time.time())
    ens,        \* spotify_client.py: the last ensure_spotify_client call
    fr,         \* spotify_client.py: the last force_reauth call
    play,       \* spotify_client.py: the last start_playback call
    log,        \* the last two calls, when the functions of spotify_client.py are called on their own
    pc,         \* main.py: where main is
    current_emotion,    \* main.py
    current_conf,       \* main.py
    cap,        \* main.py: the webcam
    windows,    \* main.py: the display windows
    ev,         \* main.py: what the last key did
    detected    \* the result of the last frame that had a detection

detectVars == <<frame, dd>>
clientVars == <<cache, writable, now, ens, fr, play, log>>
mainVars == <<pc, current_emotion, current_conf, cap, windows, ev, detected>>
vars == <<frame, dd, cache, writable, now, ens, fr, play, log,
          pc, current_emotion, current_conf, cap, windows, ev, detected>>

---------------------------------------------------------------------------
(* config.py *)

CONFIDENCE == 45

EMOTION_NAMES ==
    <<"anger", "content", "disgust", "fear", "happy", "neutral", "sad", "surprise">>

NONE == "None"

---------------------------------------------------------------------------
(* Bounds of the frames *)

MaxFaces == 2       \* rectangles the face locator returns for one frame
MaxCropDets == 1    \* boxes the model returns for one face crop
MaxFrameDets == 2   \* boxes the model returns for a whole frame

\* class ids: in range, above the range, negative within -8..-1, below -8
ClassIds == {4, 8, -1, -9}

\* the model only returns boxes whose confidence reaches the threshold
ConfLevels == {c \in {70, 90} : c >= CONFIDENCE}

Dets == [cls : ClassIds, conf : ConfLevels]

SeqsUpTo(S, n) == UNION {[1..k -> S] : k \in 0..n}

\* what model.predict answers: it raises, or returns no Results, or a Results
\* without boxes, or a Results with boxes
Predictions(n) ==
    {[kind |-> k, boxes |-> <<>>] : k \in {"raise", "empty", "noboxes"}}
    \cup {[kind |-> "boxes", boxes |-> b] : b \in SeqsUpTo(Dets, n)}

NoPrediction == [kind |-> "empty", boxes |-> <<>>]

\* a frame: the locator raises, or returns rectangles (one crop prediction each),
\* or returns none and the whole frame is given to the model
Frames ==
    {[loc |-> "raise", faces |-> <<>>, whole |-> NoPrediction]}
    \cup {[loc |-> "ok", faces |-> f, whole |-> NoPrediction] :
            f \in SeqsUpTo(Predictions(MaxCropDets), MaxFaces) \ {<<>>}}
    \cup {[loc |-> "ok", faces |-> <<>>, whole |-> p] : p \in Predictions(MaxFrameDets)}

---------------------------------------------------------------------------
(* utils/camera.py *)

\* seq[i] with Python's indexing: 0-based, negative indices count from the end,
\* IndexError outside -len..len-1
PyIndex(seq, i) ==
    IF i >= 0 /\ i < Len(seq) THEN [ok |-> TRUE, val |-> seq[i + 1]]
    ELSE IF i < 0 /\ i >= -Len(seq) THEN [ok |-> TRUE, val |-> seq[Len(seq) + i + 1]]
    ELSE [ok |-> FALSE, val |-> "IndexError"]

_read_results(results) ==
    IF results.kind = "empty" THEN <<>>
    ELSE IF results.kind = "noboxes" \/ Len(results.boxes) = 0 THEN <<>>
    ELSE [i \in 1..Len(results.boxes) |->
            [cls |-> results.boxes[i].cls, conf |-> results.boxes[i].conf]]

\* max(dets, key=lambda x: x[5]): the first element of maximal confidence
RECURSIVE MaxByConf(_, _, _)
MaxByConf(dets, i, best) ==
    IF i > Len(dets) THEN best
    ELSE MaxByConf(dets, i + 1, IF dets[i].conf > best.conf THEN dets[i] ELSE best)

predict_on_face_crop(prediction) ==
    IF prediction.kind = "raise"
    THEN [raised |-> TRUE, has |-> FALSE, cls_id |-> 0, cls_conf |-> 0]
    ELSE LET dets == _read_results(prediction) IN
         IF dets = <<>>
         THEN [raised |-> FALSE, has |-> FALSE, cls_id |-> 0, cls_conf |-> 0]
         ELSE LET best == MaxByConf(dets, 2, dets[1]) IN
              [raised |-> FALSE, has |-> TRUE, cls_id |-> best.cls, cls_conf |-> best.conf]

\* EMOTION_NAMES[cls_id] if cls_id < len(EMOTION_NAMES) else str(cls_id)
DominantLabel(cls_id) ==
    IF cls_id < Len(EMOTION_NAMES) THEN PyIndex(EMOTION_NAMES, cls_id)
    ELSE [ok |-> TRUE, val |-> ToString(cls_id)]

\* EMOTION_NAMES[cls_id] if ... cls_id < len(EMOTION_NAMES) else '...'
DrawnName(cls_id) ==
    IF cls_id < Len(EMOTION_NAMES) THEN PyIndex(EMOTION_NAMES, cls_id)
    ELSE [ok |-> TRUE, val |-> "..."]

NoLabel == [name |-> "...", hasConf |-> FALSE, conf |-> 0]

\* status: "pending" before the call, "returned" or "raised" after it
NoFrame == [loc |-> "none", faces |-> <<>>, whole |-> NoPrediction]

DetectStart ==
    [status |-> "returned", raised |-> FALSE, dominant_emotion |-> NONE, dominant_conf |-> 0,
     faceCalls |-> <<>>, frameCalls |-> 0, drawn |-> <<>>]

\* an exception leaves the function: nothing is returned
Raise(acc) ==
    [acc EXCEPT !.status = "raised", !.raised = TRUE,
                !.dominant_emotion = NONE, !.dominant_conf = 0]

\* Dominate with >= for >: the last of several equal results becomes dominant
DominateLastWins(acc, cls_id, cls_conf) ==
    IF cls_conf >= acc.dominant_conf
    THEN LET l == DominantLabel(cls_id) IN
         IF l.ok THEN [acc EXCEPT !.dominant_conf = cls_conf, !.dominant_emotion = l.val]
         ELSE Raise(acc)
    ELSE acc

\* lines 80-82 and 93-95: a result of strictly higher confidence becomes dominant
Dominate(acc, cls_id, cls_conf) ==
    IF cls_conf > acc.dominant_conf
    THEN LET l == DominantLabel(cls_id) IN
         IF l.ok THEN [acc EXCEPT !.dominant_conf = cls_conf, !.dominant_emotion = l.val]
         ELSE Raise(acc)
    ELSE acc

\* lines 85 and 96: the label drawn with the box
Draw(acc, cls_id, cls_conf) ==
    LET n == DrawnName(cls_id) IN
    IF n.ok
    THEN [acc EXCEPT !.drawn = Append(@, [name |-> n.val, hasConf |-> TRUE, conf |-> cls_conf])]
    ELSE Raise(acc)

\* lines 71-87
RECURSIVE FaceLoop(_, _, _)
FaceLoop(faces, i, acc) ==
    IF acc.raised \/ i > Len(faces) THEN acc
    ELSE LET called == [acc EXCEPT !.faceCalls = Append(@, i)]
             r == predict_on_face_crop(faces[i])
         IN  IF r.raised THEN Raise(called)
             ELSE IF ~r.has
             THEN FaceLoop(faces, i + 1, [called EXCEPT !.drawn = Append(@, NoLabel)])
             ELSE LET d == Dominate(called, r.cls_id, r.cls_conf) IN
                  IF d.raised THEN d
                  ELSE FaceLoop(faces, i + 1, Draw(d, r.cls_id, r.cls_conf))

\* lines 92-98
RECURSIVE DetLoop(_, _, _)
DetLoop(dets, i, acc) ==
    IF acc.raised \/ i > Len(dets) THEN acc
    ELSE LET d == Dominate(acc, dets[i].cls, dets[i].conf) IN
         IF d.raised THEN d
         ELSE DetLoop(dets, i + 1, Draw(d, dets[i].cls, dets[i].conf))

\* detect_and_draw falling back to the whole frame whenever the faces gave nothing
DetectAlsoWholeFrame(f) ==
    IF f.loc = "raise" THEN Raise(DetectStart)
    ELSE LET a == FaceLoop(f.faces, 1, DetectStart) IN
         IF a.raised \/ a.dominant_emotion # NONE THEN a
         ELSE LET called == [a EXCEPT !.frameCalls = @ + 1] IN
              IF f.whole.kind = "raise" THEN Raise(called)
              ELSE DetLoop(_read_results(f.whole), 1, called)

detect_and_draw(f) ==
    IF f.loc = "raise" THEN Raise(DetectStart)
    ELSE IF Len(f.faces) > 0 THEN FaceLoop(f.faces, 1, DetectStart)
    ELSE LET called == [DetectStart EXCEPT !.frameCalls = @ + 1] IN
         IF f.whole.kind = "raise" THEN Raise(called)
         ELSE DetLoop(_read_results(f.whole), 1, called)

---------------------------------------------------------------------------
(* utils/spotify_client.py: the token cache *)

REFRESH_MARGIN == 60

MaxNow == 1     \* seconds the clock advances

AccessTokens == {"tokA", "tokB"}

\* expires_at, around the margin of the clock's first seconds
ExpiryTimes == {REFRESH_MARGIN - 1, REFRESH_MARGIN, REFRESH_MARGIN + 1}

\* refresh_token: NONE stands for a record without one
TokenRecords ==
    [access_token : AccessTokens, refresh_token : {NONE, "ref"}, expires_at : ExpiryTimes]

NoToken == [access_token |-> NONE, refresh_token |-> NONE, expires_at |-> 0]

\* the file: absent, present with a token record, or present and not loadable
Absent == [kind |-> "absent", rec |-> NoToken]
Corrupt == [kind |-> "corrupt", rec |-> NoToken]
Stored(token_info) == [kind |-> "record", rec |-> token_info]

CacheStates == {Absent, Corrupt} \cup {Stored(t) : t \in TokenRecords}

\* the open() fails when the file cannot be written: the error is printed and
\* the file is left as it was
_write_cache(c, w, token_info) == IF w THEN Stored(token_info) ELSE c

\* None when the file is missing or json.load raises
_read_cache(c) ==
    IF c.kind = "absent" THEN [has |-> FALSE, rec |-> NoToken]
    ELSE IF c.kind = "corrupt" THEN [has |-> FALSE, rec |-> NoToken]
    ELSE [has |-> TRUE, rec |-> c.rec]

\* a token just issued has its whole lifetime left
IssuedTokens == {t \in TokenRecords : t.expires_at = REFRESH_MARGIN + 1}

\* what oauth.refresh_access_token and oauth.get_access_token answer: an
\* exception, or a token
Failure == [ok |-> FALSE, rec |-> NoToken]
TokenAnswers == {Failure} \cup {[ok |-> TRUE, rec |-> t] : t \in IssuedTokens}

EnsureIdle ==
    [status |-> "idle", token_info |-> NoToken, before |-> Absent, after |-> Absent,
     at |-> 0, refreshCalls |-> 0, refreshed |-> Failure, authRuns |-> 0,
     authorized |-> Failure, writes |-> <<>>]

\* run_interactive_auth that removes the cache file when the exchange fails
InteractiveAuthClearsOnFailure(e, w, answer) ==
    IF answer.ok
    THEN [e EXCEPT !.authRuns = @ + 1, !.authorized = answer,
                   !.token_info = answer.rec,
                   !.writes = Append(@, answer.rec),
                   !.after = _write_cache(e.after, w, answer.rec)]
    ELSE [e EXCEPT !.authRuns = @ + 1, !.status = "raised", !.token_info = NoToken,
                   !.after = IF w THEN Absent ELSE @]

\* run_interactive_auth, run from ensure_spotify_client call e: the token
\* exchange gives `answer`; its failure leaves the function as an exception
run_interactive_auth(e, w, answer) ==
    IF answer.ok
    THEN [e EXCEPT !.authRuns = @ + 1, !.authorized = answer,
                   !.token_info = answer.rec,
                   !.writes = Append(@, answer.rec),
                   !.after = _write_cache(e.after, w, answer.rec)]
    ELSE [e EXCEPT !.authRuns = @ + 1, !.status = "raised", !.token_info = NoToken]

\* EnsureFinish without the test of line 108: the browser flow is always run
EnsureAlwaysInteractive(e, has, w, authAnswers) ==
    {run_interactive_auth(e, w, a) : a \in authAnswers}

\* lines 108-113: without a token the interactive flow is run
EnsureFinish(e, has, w, authAnswers) ==
    IF ~has THEN {run_interactive_auth(e, w, a) : a \in authAnswers}
    ELSE {e}

\* IsNearExpiry with <= for <: a token with exactly the margin left is refreshed
IsNearExpiryInclusive(token_info, t) == token_info.expires_at - t <= REFRESH_MARGIN

\* line 94
IsNearExpiry(token_info, t) == token_info.expires_at - t < REFRESH_MARGIN

\* Refreshed without line 101: the new token is used and never written
RefreshedNotWritten(e, c, w, r) ==
    [e EXCEPT !.refreshCalls = @ + 1, !.refreshed = r, !.token_info = r.rec]

\* lines 99-101: the refresh answered r
Refreshed(e, c, w, r) ==
    [e EXCEPT !.refreshCalls = @ + 1, !.refreshed = r,
              !.token_info = r.rec,
              !.writes = Append(@, r.rec),
              !.after = _write_cache(c, w, r.rec)]

\* lines 87-88
EnsureStart(c, t) ==
    [EnsureIdle EXCEPT !.status = "returned", !.before = c, !.after = c, !.at = t]

\* the possible outcomes of ensure_spotify_client() with the file c at time t
ensure_spotify_client(c, t, w) ==
    LET token_info == _read_cache(c)
        e == EnsureStart(c, t)
    IN  IF token_info.has
        THEN IF IsNearExpiry(token_info.rec, t)
             THEN IF token_info.rec.refresh_token # NONE
                  THEN UNION {
                         IF r.ok
                         THEN EnsureFinish(Refreshed(e, c, w, r), TRUE, w, TokenAnswers)
                         ELSE EnsureFinish([e EXCEPT !.refreshCalls = @ + 1],
                                           FALSE, w, TokenAnswers)
                         : r \in TokenAnswers}
                  ELSE EnsureFinish(e, FALSE, w, TokenAnswers)
             ELSE EnsureFinish([e EXCEPT !.token_info = token_info.rec], TRUE, w, TokenAnswers)
        ELSE EnsureFinish(e, FALSE, w, TokenAnswers)

ReauthIdle ==
    [status |-> "idle", before |-> Absent, after |-> Absent, removed |-> FALSE,
     authRuns |-> 0, refreshCalls |-> 0]

\* force_reauth that leaves the file in place
ForceReauthKeepsFile(c, w) ==
    [ReauthIdle EXCEPT !.status = "returned", !.before = c, !.after = c]

\* force_reauth without its try/except: the error of os.remove leaves the function
ForceReauthUncaught(c, w) ==
    LET f == [ReauthIdle EXCEPT !.status = "returned", !.before = c, !.after = c] IN
    IF c.kind # "absent"
    THEN IF w THEN [f EXCEPT !.after = Absent, !.removed = TRUE]
         ELSE [f EXCEPT !.status = "raised"]
    ELSE f

\* os.remove raises when the file cannot be removed: the error is printed
force_reauth(c, w) ==
    LET f == [ReauthIdle EXCEPT !.status = "returned", !.before = c, !.after = c] IN
    IF c.kind # "absent"
    THEN IF w THEN [f EXCEPT !.after = Absent, !.removed = TRUE]
         ELSE f
    ELSE f

\* the last two calls
Logged(l, op) == IF Len(l) < 2 THEN Append(l, op) ELSE <<l[2], op>>

---------------------------------------------------------------------------
(* utils/emotion_to_song.py *)

\* a URI is the sequence of its parts between colons (str.split(":"))
PlaylistUri(id) == <<"spotify", "playlist", id>>

PLAYLISTS ==
    [anger |-> PlaylistUri("37i9dQZF1DX8tZsk68tuDw"),
     content |-> PlaylistUri("37i9dQZF1DX4WYpdgoIcn6"),
     disgust |-> PlaylistUri("37i9dQZF1DX4VvfRBFClxm"),
     fear |-> PlaylistUri("37i9dQZF1DWXRqgorJj26U"),
     happy |-> PlaylistUri("37i9dQZF1DXdPec7aLTmlC"),
     neutral |-> PlaylistUri("37i9dQZF1DX4sWSpwq3LiO"),
     sad |-> PlaylistUri("37i9dQZF1DX7qK8ma5wgG1"),
     surprise |-> PlaylistUri("37i9dQZF1DXcBWIGoYBM5M")]

NoUri == <<>>

\* str.lower() on the labels detect_and_draw can return: names of
\* EMOTION_NAMES and decimal numerals, none of which has an upper-case letter
Lower(emotion) == emotion

\* get_playlist_for_emotion with a default playlist for a label that is not a key
GetPlaylistOrNeutral(emotion) ==
    IF Lower(emotion) \in DOMAIN PLAYLISTS THEN PLAYLISTS[Lower(emotion)]
    ELSE PLAYLISTS["neutral"]

\* PLAYLISTS.get(emotion.lower()): None (NoUri) for a label that is not a key
get_playlist_for_emotion(emotion) ==
    IF Lower(emotion) \in DOMAIN PLAYLISTS THEN PLAYLISTS[Lower(emotion)] ELSE NoUri

---------------------------------------------------------------------------
(* utils/spotify_client.py: playback *)

MaxDevices == 2     \* devices in one listing

DeviceIds == {"dev1", "dev2"}

\* id: NONE stands for a device listed without an id
Devices == [id : DeviceIds \cup {NONE}, is_active : BOOLEAN]

\* what sp.devices() answers: it raises, or lists devices
NoListing == [ok |-> FALSE, devices |-> <<>>]
DeviceListings ==
    {NoListing} \cup {[ok |-> TRUE, devices |-> d] : d \in SeqsUpTo(Devices, MaxDevices)}

\* FirstActive that ignores is_active: always the first device of the list
FirstListed(devices, i) == devices[1].id

\* lines 121-124
RECURSIVE FirstActive(_, _)
FirstActive(devices, i) ==
    IF i > Len(devices) THEN devices[1].id
    ELSE IF devices[i].is_active THEN devices[i].id
    ELSE FirstActive(devices, i + 1)

\* None (NONE) when the listing raises or is empty
get_active_device_id(listing) ==
    IF ~listing.ok THEN NONE
    ELSE IF listing.devices = <<>> THEN NONE
    ELSE FirstActive(listing.devices, 1)

PlayIdle ==
    [status |-> "idle", ret |-> FALSE, token_info |-> NoToken, playlist_uri |-> NoUri,
     listing |-> NoListing, before |-> Absent, after |-> Absent,
     expired |-> "no", refreshCalls |-> 0, refreshed |-> Failure, writes |-> <<>>,
     deviceQueries |-> 0, dev_id |-> NONE, apiCalls |-> <<>>,
     fallbackRuns |-> 0, launches |-> <<>>]

\* playlist_uri.startswith("spotify:playlist:")
IsSpotifyPlaylist(uri) == Len(uri) >= 3 /\ uri[1] = "spotify" /\ uri[2] = "playlist"

\* f"https://open.spotify.com/playlist/{pid}" with pid = playlist_uri.split(":")[-1]
WebUrl(uri) == <<"https", "//open.spotify.com/playlist/", uri[Len(uri)]>>

Launch(how, target, ok) == [how |-> how, target |-> target, ok |-> ok]

\* Fallback without the handler of lines 165-166: the last launcher raising
\* leaves start_playback as an exception
FallbackUncaught(p) ==
    LET q == [p EXCEPT !.status = "returned", !.ret = FALSE, !.fallbackRuns = @ + 1]
        r == [q EXCEPT !.status = "raised"]
        uri == p.playlist_uri
    IN  IF IsSpotifyPlaylist(uri)
        THEN {[q EXCEPT !.launches = <<Launch("startfile", uri, TRUE)>>],
              [q EXCEPT !.launches = <<Launch("startfile", uri, FALSE),
                                       Launch("cmd", uri, TRUE)>>],
              [q EXCEPT !.launches = <<Launch("startfile", uri, FALSE),
                                       Launch("cmd", uri, FALSE),
                                       Launch("webbrowser", WebUrl(uri), TRUE)>>],
              [r EXCEPT !.launches = <<Launch("startfile", uri, FALSE),
                                       Launch("cmd", uri, FALSE),
                                       Launch("webbrowser", WebUrl(uri), FALSE)>>]}
        ELSE {[q EXCEPT !.launches = <<Launch("webbrowser", uri, TRUE)>>],
              [r EXCEPT !.launches = <<Launch("webbrowser", uri, FALSE)>>]}

\* lines 148-167: the ways the fallback can go, each launcher working or raising
Fallback(p) ==
    LET q == [p EXCEPT !.status = "returned", !.ret = FALSE, !.fallbackRuns = @ + 1]
        uri == p.playlist_uri
    IN  IF IsSpotifyPlaylist(uri)
        THEN {[q EXCEPT !.launches = <<Launch("startfile", uri, TRUE)>>],
              [q EXCEPT !.launches = <<Launch("startfile", uri, FALSE),
                                       Launch("cmd", uri, TRUE)>>]}
             \cup {[q EXCEPT !.launches = <<Launch("startfile", uri, FALSE),
                                            Launch("cmd", uri, FALSE),
                                            Launch("webbrowser", WebUrl(uri), ok)>>]
                      : ok \in BOOLEAN}
        ELSE {[q EXCEPT !.launches = <<Launch("webbrowser", uri, ok)>>] : ok \in BOOLEAN}

\* sp.start_playback(device_id=..., context_uri=...) and whether it completed
ApiCall(call, ok) == [device_id |-> call.device_id, context_uri |-> call.context_uri, ok |-> ok]

\* DeviceMissing that lets every answer through
DeviceNeverMissing(dev_id) == FALSE

\* line 142: if not dev_id
DeviceMissing(dev_id) == dev_id = NONE

\* lines 141-146, with the listing the API gives
Dispatch(p, listing) ==
    LET dev_id == get_active_device_id(listing)
        q == [p EXCEPT !.deviceQueries = @ + 1, !.listing = listing, !.dev_id = dev_id]
    IN  IF DeviceMissing(dev_id) THEN Fallback(q)
        ELSE LET call == [device_id |-> dev_id, context_uri |-> p.playlist_uri]
                 done == [q EXCEPT !.apiCalls = Append(@, ApiCall(call, TRUE))]
                 failed == [q EXCEPT !.apiCalls = Append(@, ApiCall(call, FALSE))]
             IN  {[done EXCEPT !.status = "returned", !.ret = TRUE]} \cup Fallback(failed)

\* the possible outcomes of start_playback(sp, oauth, token_info, playlist_uri)
\* with the file c; oauth.is_token_expired answers yes, no or raises
start_playback(token_info, playlist_uri, c, w, listings) ==
    LET p == [PlayIdle EXCEPT !.token_info = token_info, !.playlist_uri = playlist_uri,
                              !.before = c, !.after = c]
    IN  Fallback([p EXCEPT !.expired = "raise"])
        \cup UNION {Dispatch(p, l) : l \in listings}
        \cup (LET x == [p EXCEPT !.expired = "yes"] IN
              IF token_info.refresh_token = NONE
              THEN Fallback(x)
              ELSE UNION {
                     IF r.ok
                     THEN UNION {Dispatch([x EXCEPT !.refreshCalls = @ + 1, !.refreshed = r,
                                                    !.token_info = r.rec,
                                                    !.writes = Append(@, r.rec),
                                                    !.after = _write_cache(c, w, r.rec)], l)
                                   : l \in listings}
                     ELSE Fallback([x EXCEPT !.refreshCalls = @ + 1])
                     : r \in TokenAnswers})

---------------------------------------------------------------------------
(* main.py *)

NO_KEY == 255
ESC == 27
KEY_Q == 113
KEY_R == 114

\* cv2.waitKey(1) & 0xFF: no key, ESC, q, r, another key (Q)
KeyCodes == {NO_KEY, ESC, KEY_Q, KEY_R, 81}

NoEvent ==
    [key |-> NO_KEY, outcome |-> "none", emotion |-> NONE, conf |-> 0,
     lookups |-> <<>>, playlist_uri |-> NoUri, cacheBefore |-> Absent]

\* main before it is called
MainIdle ==
    /\ pc = "start"
    /\ current_emotion = NONE /\ current_conf = 0
    /\ cap = "none" /\ windows = "none"
    /\ ev = NoEvent
    /\ detected = [emotion |-> NONE, conf |-> 0]

\* the loop reads of a frame what detect_and_draw returns or raises for it,
\* and of a device listing the device chosen from it: one frame for each
\* result of a frame with one rectangle, one listing for each device chosen
\* from a listing of at most one device (these give every such value)
OneFaceFrames ==
    {[loc |-> "raise", faces |-> <<>>, whole |-> NoPrediction]}
    \cup {[loc |-> "ok", faces |-> <<p>>, whole |-> NoPrediction] : p \in Predictions(1)}

Returned(f) ==
    LET r == detect_and_draw(f) IN <<r.raised, r.dominant_emotion, r.dominant_conf>>

MainFrames ==
    {CHOOSE f \in OneFaceFrames : Returned(f) = v : v \in {Returned(g) : g \in OneFaceFrames}}

ShortListings ==
    {NoListing} \cup {[ok |-> TRUE, devices |-> d] : d \in SeqsUpTo(Devices, 1)}

MainListings ==
    {CHOOSE l \in ShortListings :
        /\ get_active_device_id(l) = d
        /\ \A i \in 1..Len(l.devices) : l.devices[i].is_active :
        d \in {get_active_device_id(k) : k \in ShortListings}}

\* UpdateSession taking every result, also one without a detection
UpdateSessionAlways(emotion, conf, dom_emotion, dom_conf) ==
    [emotion |-> dom_emotion, conf |-> dom_conf]

\* lines 61-63: if dom_emotion: current_emotion, current_conf = dom_emotion, dom_conf
UpdateSession(emotion, conf, dom_emotion, dom_conf) ==
    IF dom_emotion # NONE
    THEN [emotion |-> dom_emotion, conf |-> dom_conf]
    ELSE [emotion |-> emotion, conf |-> conf]

---------------------------------------------------------------------------
(* The functions of spotify_client.py called in any order *)

InitClient ==
    /\ cache \in CacheStates
    /\ writable \in BOOLEAN
    /\ now = 0
    /\ ens = EnsureIdle
    /\ fr = ReauthIdle
    /\ play = PlayIdle
    /\ log = <<>>
    /\ frame = NoFrame /\ dd = DetectStart
    /\ MainIdle

EnsureSpotifyClient ==
    \E e \in ensure_spotify_client(cache, now, writable) :
        /\ ens' = e
        /\ cache' = e.after
        /\ log' = Logged(log, "ensure_spotify_client")
        /\ UNCHANGED <<writable, now, fr, play, detectVars, mainVars>>

ForceReauth ==
    /\ fr' = force_reauth(cache, writable)
    /\ cache' = fr'.after
    /\ log' = Logged(log, "force_reauth")
    /\ UNCHANGED <<writable, now, ens, play, detectVars, mainVars>>

Tick ==
    /\ now < MaxNow
    /\ now' = now + 1
    /\ UNCHANGED <<cache, writable, ens, fr, play, log, detectVars, mainVars>>

NextClient == EnsureSpotifyClient \/ ForceReauth \/ Tick

SpecClient == InitClient /\ [][NextClient]_vars

---------------------------------------------------------------------------
(* The dispatcher alone: one start_playback call *)

\* start_playback reads of token_info its refresh_token only
PlayTokens == {t \in TokenRecords : t.access_token = "tokA" /\ t.expires_at = REFRESH_MARGIN}

PlayUris == {PLAYLISTS["happy"], <<"https", "//open.spotify.com/playlist/37i9dQZF1DXdPec7aLTmlC">>}

\* the arguments and the device listing are there before the call
InitPlay ==
    /\ writable \in BOOLEAN
    /\ \E t \in PlayTokens, u \in PlayUris, l \in DeviceListings :
          /\ cache \in {Absent, Stored(t)}
          /\ play = [PlayIdle EXCEPT !.status = "pending", !.token_info = t,
                                     !.playlist_uri = u, !.listing = l]
    /\ now = 0 /\ ens = EnsureIdle /\ fr = ReauthIdle /\ log = <<>>
    /\ frame = NoFrame /\ dd = DetectStart
    /\ MainIdle

StartPlayback ==
    /\ play.status = "pending"
    /\ play' \in start_playback(play.token_info, play.playlist_uri, cache, writable,
                                {play.listing})
    /\ cache' = play'.after
    /\ log' = Logged(log, "start_playback")
    /\ UNCHANGED <<writable, now, ens, fr, detectVars, mainVars>>

NextPlay == StartPlayback

SpecPlay == InitPlay /\ [][NextPlay]_vars

---------------------------------------------------------------------------
(* The aggregator alone: one frame after another is given to detect_and_draw *)

\* the frame is there before the call and the call is made once
InitDetect ==
    /\ frame \in Frames
    /\ dd = [DetectStart EXCEPT !.status = "pending"]
    /\ cache = Absent /\ writable = TRUE /\ now = 0
    /\ ens = EnsureIdle /\ fr = ReauthIdle /\ play = PlayIdle /\ log = <<>>
    /\ MainIdle

DetectAndDraw ==
    /\ dd.status = "pending"
    /\ dd' = detect_and_draw(frame)
    /\ UNCHANGED <<frame, clientVars, mainVars>>

NextDetect == DetectAndDraw

SpecDetect == InitDetect /\ [][NextDetect]_vars

---------------------------------------------------------------------------
(* main *)

Init ==
    /\ MainIdle
    /\ cache \in CacheStates
    /\ writable \in BOOLEAN
    /\ now = 0
    /\ ens = EnsureIdle /\ fr = ReauthIdle /\ play = PlayIdle /\ log = <<>>
    /\ frame = NoFrame /\ dd = DetectStart

\* lines 24-45: the model file, load_model, the webcam
Setup ==
    /\ pc = "start"
    /\ \E modelExists \in BOOLEAN, loaded \in BOOLEAN, opened \in BOOLEAN :
          IF ~modelExists THEN pc' = "exited" /\ cap' = cap
          ELSE IF ~loaded THEN pc' = "raised" /\ cap' = cap
          ELSE IF ~opened THEN pc' = "exited" /\ cap' = "closed"
          ELSE pc' = "frame" /\ cap' = "open"
    /\ UNCHANGED <<current_emotion, current_conf, windows, ev, detected,
                    detectVars, clientVars>>

\* lines 52-69: one frame is read, annotated and shown
ProcessFrame ==
    /\ pc = "frame"
    /\ ev' = NoEvent /\ ens' = EnsureIdle /\ fr' = ReauthIdle /\ play' = PlayIdle
    /\ \/ \* cap.read() gives no frame: break
          /\ frame' = NoFrame
          /\ dd' = [DetectStart EXCEPT !.status = "pending"]
          /\ pc' = "finally"
          /\ UNCHANGED <<current_emotion, current_conf, windows, detected>>
       \/ \E f \in MainFrames :
            LET r == detect_and_draw(f) IN
            /\ frame' = f
            /\ dd' = r
            /\ IF r.raised
               THEN /\ pc' = "unwinding"
                    /\ UNCHANGED <<current_emotion, current_conf, windows, detected>>
               ELSE LET u == UpdateSession(current_emotion, current_conf,
                                           r.dominant_emotion, r.dominant_conf)
                    IN  /\ current_emotion' = u.emotion
                        /\ current_conf' = u.conf
                        /\ detected' = IF r.dominant_emotion # NONE
                                        THEN [emotion |-> r.dominant_emotion,
                                              conf |-> r.dominant_conf]
                                        ELSE detected
                        /\ windows' = "shown"
                        /\ pc' = "key"
    /\ UNCHANGED <<cap, cache, writable, now, log>>

Event(key, outcome) ==
    [NoEvent EXCEPT !.key = key, !.outcome = outcome, !.emotion = current_emotion,
                    !.conf = current_conf, !.cacheBefore = cache]

\* NothingToCapture that is never true
AlwaysSomethingToCapture(emotion) == FALSE

\* line 86: if current_emotion is None
NothingToCapture(emotion) == emotion = NONE

\* AfterCapture without the handler of lines 99-102: a failed authorization
\* leaves main as an exception
AfterCaptureAuthFatal(outcome) ==
    IF outcome = "authorization failed" THEN "unwinding"
    ELSE IF outcome \in {"played", "fallback", "playback raised"} THEN "finally"
    ELSE "frame"

\* AfterCapture with continue for the break of line 115
AfterCaptureContinues(outcome) == "frame"

\* lines 88, 94, 102: continue; line 115: break after the playback attempt
AfterCapture(outcome) ==
    IF outcome \in {"played", "fallback", "playback raised"} THEN "finally"
    ELSE "frame"

\* lines 85-115: q. Of the calls of a run of main the log keeps those of
\* start_playback
Capture ==
    IF NothingToCapture(current_emotion)
    THEN /\ ev' = Event(KEY_Q, "nothing to capture")
         /\ pc' = AfterCapture(ev'.outcome)
         /\ UNCHANGED <<cache, ens, play, log>>
    ELSE LET playlist_uri == get_playlist_for_emotion(current_emotion)
             looked == [Event(KEY_Q, "unmapped") EXCEPT
                          !.lookups = <<current_emotion>>, !.playlist_uri = playlist_uri]
         IN  IF playlist_uri = NoUri
             THEN /\ ev' = looked
                  /\ pc' = AfterCapture(ev'.outcome)
                  /\ UNCHANGED <<cache, ens, play, log>>
             ELSE \E e \in ensure_spotify_client(cache, now, writable) :
                    /\ ens' = e
                    /\ IF e.status = "raised"
                       THEN /\ ev' = [looked EXCEPT !.outcome = "authorization failed"]
                            /\ pc' = AfterCapture(ev'.outcome)
                            /\ cache' = e.after
                            /\ UNCHANGED <<play, log>>
                       ELSE \E p \in start_playback(e.token_info, playlist_uri, e.after,
                                                    writable, MainListings) :
                              /\ play' = p
                              /\ ev' = [looked EXCEPT !.outcome =
                                          IF p.status = "raised" THEN "playback raised"
                                          ELSE IF p.ret THEN "played" ELSE "fallback"]
                              /\ cache' = p.after
                              /\ pc' = AfterCapture(ev'.outcome)
                              /\ log' = Logged(log, "start_playback")

\* lines 71-115: the key read by cv2.waitKey
HandleKey ==
    /\ pc = "key"
    /\ \E key \in KeyCodes :
          IF key = ESC
          THEN /\ ev' = Event(key, "exit")
               /\ pc' = "finally"
               /\ UNCHANGED <<cache, ens, fr, play, log>>
          ELSE IF key = KEY_R
          THEN /\ fr' = force_reauth(cache, writable)
               /\ cache' = fr'.after
               /\ ev' = Event(key, "reauth")
               /\ pc' = "frame"
               /\ UNCHANGED <<ens, play, log>>
          ELSE IF key = KEY_Q
          THEN Capture /\ UNCHANGED fr
          ELSE /\ ev' = Event(key, "none")
               /\ pc' = "frame"
               /\ UNCHANGED <<cache, ens, fr, play, log>>
    /\ UNCHANGED <<current_emotion, current_conf, cap, windows, detected,
                    detectVars, writable, now>>

\* Finally as statements after the loop instead of a finally clause: an
\* exception passes them by
FinallyOnlyAfterLoop(p, c, w) ==
    IF p = "finally" THEN [pc |-> "returned", cap |-> "released", windows |-> "destroyed"]
    ELSE [pc |-> "raised", cap |-> c, windows |-> w]

\* lines 117-119: cap.release(); cv2.destroyAllWindows(), then main returns or
\* the exception goes on
Finally(p, c, w) ==
    [pc |-> IF p = "finally" THEN "returned" ELSE "raised",
     cap |-> "released", windows |-> "destroyed"]

\* lines 117-119: finally, on the way out of the loop or of an exception
Cleanup ==
    /\ pc \in {"finally", "unwinding"}
    /\ LET f == Finally(pc, cap, windows) IN
          /\ cap' = f.cap
          /\ windows' = f.windows
          /\ pc' = f.pc
    /\ UNCHANGED <<current_emotion, current_conf, ev, detected, detectVars, clientVars>>

\* the clock, while main runs
Clock ==
    /\ pc \in {"frame", "key"}
    /\ now < MaxNow
    /\ now' = now + 1
    /\ UNCHANGED <<cache, writable, ens, fr, play, log, detectVars, mainVars>>

Next == Setup \/ ProcessFrame \/ HandleKey \/ Cleanup \/ Clock

Spec == Init /\ [][Next]_vars

---------------------------------------------------------------------------
(* Properties of the aggregator *)

\* the per-face classification results of the frame, in locator order
FaceResults == [i \in 1..Len(frame.faces) |-> predict_on_face_crop(frame.faces[i])]

MaxOf(S) == CHOOSE m \in S : \A x \in S : x <= m
MinOf(S) == CHOOSE m \in S : \A x \in S : m <= x

\* C1: when the locator returned rectangles and detect_and_draw returns, the
\* dominant confidence is the maximum of the per-face confidences and the
\* dominant emotion is the label of the earliest face that reaches it (none
\* and 0.0 when no face gave a result).
C1_DominantIsFirstMax ==
    (dd.status = "returned" /\ frame.loc = "ok" /\ Len(frame.faces) > 0) =>
        LET found == {i \in 1..Len(frame.faces) : FaceResults[i].has} IN
        IF found = {}
        THEN dd.dominant_emotion = NONE /\ dd.dominant_conf = 0
        ELSE LET top == MaxOf({FaceResults[i].cls_conf : i \in found})
                 first == MinOf({i \in found : FaceResults[i].cls_conf = top})
             IN  /\ dd.dominant_conf = top
                 /\ dd.dominant_emotion = DominantLabel(FaceResults[first].cls_id).val

\* two faces of equal, maximal confidence and different labels: the first wins
C1_Witness ==
    /\ dd.status = "returned"
    /\ Len(frame.faces) = 2
    /\ FaceResults[1].has /\ FaceResults[2].has
    /\ FaceResults[1].cls_conf = FaceResults[2].cls_conf
    /\ FaceResults[1].cls_id = 4 /\ FaceResults[2].cls_id = 8
    /\ dd.dominant_emotion = "happy"

\* C2: with zero rectangles the whole frame is classified exactly once and no
\* face crop is; the result is none/0.0 when that finds nothing and the first
\* detection of maximal confidence otherwise. With one or more rectangles the
\* whole frame is never classified and, when detect_and_draw returns, every
\* rectangle has been classified exactly once, in order.
C2_FallbackOnlyWithoutFaces ==
    (dd.status # "pending" /\ frame.loc = "ok") =>
        IF Len(frame.faces) = 0
        THEN /\ dd.frameCalls = 1 /\ dd.faceCalls = <<>>
             /\ dd.status = "returned" =>
                    LET dets == _read_results(frame.whole) IN
                    IF dets = <<>>
                    THEN dd.dominant_emotion = NONE /\ dd.dominant_conf = 0
                    ELSE LET top == MaxOf({dets[i].conf : i \in 1..Len(dets)})
                             first == MinOf({i \in 1..Len(dets) : dets[i].conf = top})
                         IN  /\ dd.dominant_conf = top
                             /\ dd.dominant_emotion = DominantLabel(dets[first].cls).val
        ELSE /\ dd.frameCalls = 0
             /\ dd.status = "returned" =>
                    dd.faceCalls = [i \in 1..Len(frame.faces) |-> i]

\* no rectangle, two whole-frame detections, the second one the stronger
C2_Witness ==
    /\ dd.status = "returned"
    /\ frame.loc = "ok" /\ Len(frame.faces) = 0
    /\ frame.whole.kind = "boxes" /\ Len(frame.whole.boxes) = 2
    /\ frame.whole.boxes[1].conf < frame.whole.boxes[2].conf
    /\ dd.frameCalls = 1
    /\ dd.dominant_conf = frame.whole.boxes[2].conf

\* neither the locator nor the model raised for the frame
NoAdapterRaises ==
    /\ frame.loc = "ok"
    /\ frame.whole.kind # "raise"
    /\ \A i \in 1..Len(frame.faces) : frame.faces[i].kind # "raise"

\* the results detect_and_draw goes through for the frame, in order: one for
\* each rectangle, or else the detections of the whole frame
Classified ==
    IF Len(frame.faces) > 0 THEN FaceResults
    ELSE LET dets == _read_results(frame.whole) IN
         [i \in 1..Len(dets) |->
            [raised |-> FALSE, has |-> TRUE, cls_id |-> dets[i].cls, cls_conf |-> dets[i].conf]]

InRange(cls_id) == cls_id >= 0 /\ cls_id < Len(EMOTION_NAMES)

OutOfRange == {i \in 1..Len(Classified) : Classified[i].has /\ ~InRange(Classified[i].cls_id)}

\* C12: for a frame with a detection whose class id is not in 0..7, negative
\* ids included, detect_and_draw does not raise, the label drawn for that
\* detection is its numeric id, and when that detection is the dominant one
\* the dominant emotion returned is its numeric id, on both paths.
C12_OutOfRangeRenderedRaw ==
    (dd.status # "pending" /\ NoAdapterRaises /\ OutOfRange # {}) =>
        /\ dd.status = "returned"
        /\ Len(dd.drawn) = Len(Classified)
        /\ \A i \in OutOfRange : dd.drawn[i].name = ToString(Classified[i].cls_id)
        /\ LET found == {i \in 1..Len(Classified) : Classified[i].has}
               top == MaxOf({Classified[i].cls_conf : i \in found})
               first == MinOf({i \in found : Classified[i].cls_conf = top})
           IN  first \in OutOfRange =>
                   dd.dominant_emotion = ToString(Classified[first].cls_id)

---------------------------------------------------------------------------
(* Properties of the token cache *)

EnsureCalled == ens.status # "idle"
CachedRecord == ens.before.kind = "record"
SecondsLeft == ens.before.rec.expires_at - ens.at
HasRefreshToken == ens.before.rec.refresh_token # NONE

\* C5: ensure_spotify_client with a cached record that has 60 seconds or more
\* left returns that record, makes no refresh call, runs no interactive
\* authorization, writes nothing and leaves the cache file as it was.
C5_FreshTokenReturnedUnchanged ==
    (EnsureCalled /\ CachedRecord /\ SecondsLeft >= REFRESH_MARGIN) =>
        /\ ens.status = "returned"
        /\ ens.token_info = ens.before.rec
        /\ ens.refreshCalls = 0
        /\ ens.authRuns = 0
        /\ ens.writes = <<>>
        /\ ens.after = ens.before

\* a record with exactly 60 seconds left, after the clock advanced, is returned
C5_Witness ==
    /\ ens.status = "returned" /\ CachedRecord
    /\ ens.at > 0 /\ SecondsLeft = REFRESH_MARGIN
    /\ ens.token_info = ens.before.rec
    /\ cache = ens.before

InteractiveCase ==
    \/ ~CachedRecord
    \/ CachedRecord /\ SecondsLeft < REFRESH_MARGIN /\ ~HasRefreshToken
    \/ CachedRecord /\ SecondsLeft < REFRESH_MARGIN /\ HasRefreshToken
          /\ ens.refreshCalls = 1 /\ ~ens.refreshed.ok

ReauthThenEnsure == log = <<"force_reauth", "ensure_spotify_client">>

\* what "the interactive path" is for the ensure_spotify_client call ens
TookInteractivePath ==
    /\ ens.authRuns = 1
    /\ ens.refreshCalls = 0
    /\ ens.status = "returned" => ens.token_info = ens.authorized.rec

\* C8 as stated: after force_reauth the cache file is absent whatever it held,
\* force_reauth ran no authorization step, and the next ensure_spotify_client
\* call takes the interactive path.
C8_ReauthAlwaysClears ==
    /\ fr.status # "idle" =>
          fr.after = Absent /\ fr.authRuns = 0 /\ fr.refreshCalls = 0
    /\ ReauthThenEnsure => (ens.before = Absent /\ TookInteractivePath)

\* C8 amended: after force_reauth the cache file is absent whatever it held,
\* unless the file cannot be removed: then the error is swallowed, the file is
\* as it was and the next call still uses it. force_reauth runs no
\* authorization step, and when it left the file absent the next
\* ensure_spotify_client call takes the interactive path.
C8_ReauthClearsIfRemovable ==
    /\ fr.status # "idle" =>
          /\ fr.after = (IF writable THEN Absent ELSE fr.before)
          /\ fr.authRuns = 0 /\ fr.refreshCalls = 0
    /\ (ReauthThenEnsure /\ fr.after = Absent) =>
          (ens.before = Absent /\ TookInteractivePath)

\* a token with time left was cached, force_reauth removed it and the next
\* ensure_spotify_client call went through the interactive flow
C8_Witness ==
    /\ ReauthThenEnsure
    /\ fr.before.kind = "record" /\ fr.before.rec.expires_at - now >= REFRESH_MARGIN
    /\ fr.removed
    /\ ens.status = "returned" /\ ens.authRuns = 1
    /\ ens.token_info # fr.before.rec

\* C9: force_reauth never raises; on a missing cache file it changes nothing;
\* a second call in a row leaves the state the first call left.
C9_ReauthIdempotent ==
    /\ fr.status \in {"idle", "returned"}
    /\ (fr.status = "returned" /\ fr.before = Absent) =>
          (fr.after = Absent /\ ~fr.removed)
    /\ log = <<"force_reauth", "force_reauth">> =>
          (fr.after = fr.before /\ ~fr.removed /\ cache = fr.before)

\* two calls in a row, the first of which removed the file, and two calls in
\* a row on a file that cannot be removed
C9_Witness ==
    /\ log = <<"force_reauth", "force_reauth">>
    /\ fr.before = Absent /\ cache = Absent

C9_WitnessLocked ==
    /\ log = <<"force_reauth", "force_reauth">>
    /\ ~writable /\ cache.kind = "record"

---------------------------------------------------------------------------
(* Properties of the dispatcher *)

PlayCalled == play.status \notin {"idle", "pending"}

\* one run of the fallback for the playlist: the launchers are tried in
\* order, each is given the playlist, and the run stops at the first that works
OneFallbackRun ==
    /\ play.fallbackRuns = 1
    /\ Len(play.launches) >= 1
    /\ \A i \in 1..Len(play.launches) :
          /\ play.launches[i].target \in {play.playlist_uri, WebUrl(play.playlist_uri)}
          /\ play.launches[i].ok => i = Len(play.launches)

\* C10: when the device listing is empty, start_playback returns false, never
\* makes the start-playback API call and runs the fallback for the playlist
\* exactly once.
C10_EmptyDeviceListFallsBack ==
    (PlayCalled /\ play.deviceQueries = 1 /\ play.listing.ok /\ play.listing.devices = <<>>) =>
        /\ play.status = "returned"
        /\ play.ret = FALSE
        /\ play.apiCalls = <<>>
        /\ OneFallbackRun

\* the token was not expired, the listing was empty and the OS handler opened the playlist
C10_Witness ==
    /\ PlayCalled /\ play.expired = "no"
    /\ play.deviceQueries = 1 /\ play.listing.ok /\ play.listing.devices = <<>>
    /\ play.ret = FALSE
    /\ play.launches = <<Launch("startfile", PLAYLISTS["happy"], TRUE)>>

\* the start-playback API call was made and completed without error
ApiCompleted == \E i \in 1..Len(play.apiCalls) : play.apiCalls[i].ok

\* something failed on the API path: the expiry test or the refresh raised,
\* no device was found, or the start-playback API call raised
ApiPathFailed ==
    \/ play.expired = "raise"
    \/ play.expired = "yes" /\ ~play.refreshed.ok
    \/ play.deviceQueries = 1 /\ play.dev_id = NONE
    \/ \E i \in 1..Len(play.apiCalls) : ~play.apiCalls[i].ok

\* C11: start_playback never raises; it returns true exactly when the
\* start-playback API call completed without error; any failure on the API
\* path, and any failure of the launchers of the fallback, ends with the
\* fallback taken once and false returned; with true the fallback is not run.
C11_ReturnsTrueIffApiCompleted ==
    PlayCalled =>
        /\ play.status = "returned"
        /\ play.ret <=> ApiCompleted
        /\ play.ret <=> ~ApiPathFailed
        /\ play.ret => (play.fallbackRuns = 0 /\ play.launches = <<>>)
        /\ ~play.ret => OneFallbackRun

\* the API call raised and then every launcher of the fallback raised as well
C11_Witness ==
    /\ PlayCalled /\ play.status = "returned" /\ play.ret = FALSE
    /\ Len(play.apiCalls) = 1 /\ ~play.apiCalls[1].ok
    /\ Len(play.launches) = 3 /\ ~play.launches[3].ok

C17_WitnessNoneActive ==
    /\ PlayCalled /\ play.listing.ok
    /\ play.listing.devices = <<[id |-> "dev2", is_active |-> FALSE],
                                [id |-> "dev1", is_active |-> FALSE]>>
    /\ Len(play.apiCalls) = 1 /\ play.apiCalls[1].device_id = "dev2"

---------------------------------------------------------------------------
(* Properties of the frame loop *)

CaptureEvent == ev.key = KEY_Q

\* C3 as stated: at a capture the emotion and confidence read are those
\* detect_and_draw returned for the most recently processed frame, none and
\* 0.0 included.
C3_CaptureReadsLastFrame ==
    CaptureEvent =>
        (ev.emotion = dd.dominant_emotion /\ ev.conf = dd.dominant_conf)

\* C3 amended: the session state takes the result of every processed frame
\* that has a detection and is left as it was by a frame without one, so at a
\* capture the emotion and confidence read are those of the most recent frame
\* that had a detection (none and 0.0 when no frame had one yet).
C3_CaptureReadsLastDetection ==
    /\ pc = "key" =>
          /\ current_emotion = detected.emotion /\ current_conf = detected.conf
          /\ dd.dominant_emotion # NONE =>
                (current_emotion = dd.dominant_emotion /\ current_conf = dd.dominant_conf)
    /\ CaptureEvent =>
          (ev.emotion = detected.emotion /\ ev.conf = detected.conf)

\* q on a frame without a detection reads the emotion of an earlier frame
C3_Witness ==
    /\ CaptureEvent
    /\ dd.status = "returned" /\ dd.dominant_emotion = NONE
    /\ ev.emotion = "happy" /\ ev.conf = 90

\* C4: q while the current emotion is none ends in "nothing to capture": no
\* playlist lookup, no ensure_spotify_client call (the cache file is not read,
\* refreshed or rewritten), no start_playback call, and the loop goes on.
C4_NothingToCapture ==
    (CaptureEvent /\ ev.emotion = NONE) =>
        /\ ev.outcome = "nothing to capture"
        /\ ev.lookups = <<>>
        /\ ens = EnsureIdle
        /\ play = PlayIdle
        /\ fr = ReauthIdle
        /\ cache = ev.cacheBefore
        /\ pc = "frame" /\ cap = "open"

\* q before any detection, with a cached token on disk
C4_Witness ==
    /\ CaptureEvent /\ ev.emotion = NONE
    /\ ev.outcome = "nothing to capture"
    /\ cache.kind = "record"
    /\ pc = "frame"

\* the ways a capture can fail
CaptureFailures ==
    {"nothing to capture", "unmapped", "authorization failed", "fallback", "playback raised"}

\* C13 as stated: after every capture failure, a playback failure included,
\* the frame loop goes on and main does not end.
C13_CaptureFailureNonFatal ==
    (CaptureEvent /\ ev.outcome \in CaptureFailures) => (pc = "frame" /\ cap = "open")

\* C13 amended: no capture failure leaves main as an exception. After "nothing
\* to capture", an unmapped emotion or a failed authorization the frame loop
\* goes on; after a playback attempt, whether it played or fell back, the
\* loop is left and main returns.
C13_CaptureFailureEndsOnlyAfterPlayback ==
    CaptureEvent =>
        /\ pc \notin {"unwinding", "raised"}
        /\ ev.outcome \in CaptureFailures \cup {"played"}
        /\ ev.outcome \in {"nothing to capture", "unmapped", "authorization failed"} =>
              (pc = "frame" /\ cap = "open" /\ play = PlayIdle)
        /\ ev.outcome \in {"played", "fallback", "playback raised"} =>
              (pc \in {"finally", "returned"} /\ PlayCalled /\ play.status = "returned")

\* the authorization failed and the loop goes on
C13_Witness ==
    /\ CaptureEvent /\ ev.outcome = "authorization failed"
    /\ ens.status = "raised"
    /\ pc = "frame" /\ cap = "open"

\* the frame of this iteration failed: cap.read() gave no frame, or
\* detect_and_draw raised
ReadFailed == pc # "start" /\ frame = NoFrame /\ dd.status = "pending"
ClassifyFailed == dd.status = "raised"

\* C14: after a frame that failed to read or to classify the frame loop goes
\* on with the next frame, and the session's emotion is as before the frame.
C14_FrameFailureSkipped ==
    (ReadFailed \/ ClassifyFailed) =>
        /\ pc \in {"frame", "key"} /\ cap = "open"
        /\ current_emotion = detected.emotion /\ current_conf = detected.conf

\* C15: a key event 'r' deletes the cached token and then does what a capture
\* does: with an emotion in the session the playlist is looked up, and for a
\* mapped emotion ensure_spotify_client and then start_playback are called.
C15_ReauthThenCapture ==
    (ev.key = KEY_R /\ ev.emotion # NONE) =>
        /\ fr # ReauthIdle
        /\ ev.lookups = <<ev.emotion>>
        /\ get_playlist_for_emotion(ev.emotion) # NoUri =>
              /\ ens # EnsureIdle
              /\ ens.status = "returned" => PlayCalled

\* C16: within one capture the steps are lookup, credential, dispatch, each
\* gated on the one before: ensure_spotify_client runs only after the session's
\* emotion was looked up and is a key of the mapping (an unmapped label ends
\* the capture with no credential or playback step), start_playback runs only
\* after ensure_spotify_client returned a credential, and the playlist given
\* to start_playback and to the start-playback API call is the mapping's
\* playlist for the session's emotion.
C16_LookupCredentialDispatch ==
    CaptureEvent =>
        /\ (ev.emotion # NONE /\ ev.emotion \notin DOMAIN PLAYLISTS) =>
              /\ ev.outcome = "unmapped" /\ ev.lookups = <<ev.emotion>>
              /\ ens = EnsureIdle /\ play = PlayIdle /\ cache = ev.cacheBefore
        /\ ens # EnsureIdle =>
              /\ ev.lookups = <<ev.emotion>>
              /\ ev.emotion \in DOMAIN PLAYLISTS
              /\ ev.playlist_uri = PLAYLISTS[ev.emotion]
              /\ ens.before = ev.cacheBefore
        /\ ens.status = "raised" => (play = PlayIdle /\ ev.outcome = "authorization failed")
        /\ PlayCalled =>
              /\ ens.status = "returned" /\ ens.token_info # NoToken
              /\ play.before = ens.after
              /\ play.playlist_uri = PLAYLISTS[ev.emotion]
              /\ \A i \in 1..Len(play.apiCalls) :
                    /\ play.apiCalls[i].context_uri = PLAYLISTS[ev.emotion]
                    /\ play.apiCalls[i].device_id = get_active_device_id(play.listing)
              /\ ev.outcome = (IF play.ret THEN "played" ELSE "fallback")

\* happy, a credential, one active device: the API call is made for that
\* device with the happy playlist and start_playback returns true
C16_Witness ==
    /\ CaptureEvent /\ ev.emotion = "happy" /\ ev.outcome = "played"
    /\ ens.status = "returned"
    /\ play.listing = [ok |-> TRUE, devices |-> <<[id |-> "dev1", is_active |-> TRUE]>>]
    /\ play.apiCalls = <<[device_id |-> "dev1", ok |-> TRUE,
                          context_uri |-> <<"spotify", "playlist", "37i9dQZF1DXdPec7aLTmlC">>]>>
    /\ play.ret = TRUE

---------------------------------------------------------------------------
(* Properties of the cache file across a capture *)

\* the tokens a call of ensure_spotify_client or start_playback obtained
EnsureObtained ==
    {a.rec : a \in {x \in {ens.refreshed, ens.authorized} : x.ok}}
PlayObtained == {a.rec : a \in {x \in {play.refreshed} : x.ok}}

EnsureRefreshFailed == ens.refreshCalls > 0 /\ ~ens.refreshed.ok
PlayRefreshFailed == play.expired = "raise" \/ (play.expired = "yes" /\ ~play.refreshed.ok)

C18_WitnessPlayback ==
    /\ PlayCalled /\ play.expired = "yes" /\ play.refreshCalls = 1 /\ ~play.refreshed.ok
    /\ writable /\ play.before.kind = "record" /\ cache = play.before

---------------------------------------------------------------------------
(* Properties of the ways out of the frame loop *)

LoopEntered == cap \in {"open", "released"}

\* C19: with the camera opened and the loop entered, the camera stays open
\* while the loop runs, and main is left, by return or by an exception, only
\* with the camera released and the windows destroyed; the ways out are ESC, a
\* playback attempt, a failed frame read and an exception of detect_and_draw.
C19_CleanupOnEveryExit ==
    /\ pc \in {"frame", "key", "finally", "unwinding"} => cap = "open"
    /\ (pc \in {"returned", "raised"} /\ LoopEntered) =>
          (cap = "released" /\ windows = "destroyed")
    /\ pc = "returned" =>
          /\ LoopEntered
          /\ \/ ev.key = ESC /\ ev.outcome = "exit"
             \/ CaptureEvent /\ PlayCalled
             \/ ReadFailed
    /\ (pc = "raised" /\ LoopEntered) => ClassifyFailed
    /\ pc = "exited" => ~LoopEntered

\* the classifier raised on a frame: the exception leaves main after the
\* camera was released and the windows were destroyed
C19_Witness ==
    /\ pc = "raised" /\ ClassifyFailed
    /\ cap = "released" /\ windows = "destroyed"

\* C20: start_playback is called at most once in a run of main: after its
\* call, whether it played or fell back, the loop is left; a capture that
\* ends earlier and a force-reauth event call no start_playback and leave the
\* loop running.
C20_PlaybackAtMostOnce ==
    /\ Len(log) <= 1
    /\ PlayCalled <=> log = <<"start_playback">>
    /\ PlayCalled =>
          /\ CaptureEvent /\ ev.outcome \in {"played", "fallback"}
          /\ pc \in {"finally", "returned"}
    /\ (ev.key \in {KEY_Q, KEY_R} /\ ev.outcome \notin {"played", "fallback"}) =>
          /\ ev.outcome \in {"nothing to capture", "unmapped", "authorization failed", "reauth"}
          /\ play = PlayIdle /\ log = <<>>
          /\ pc = "frame" /\ cap = "open"

\* main has returned after a capture whose one start_playback call fell back
C20_Witness ==
    /\ pc = "returned" /\ CaptureEvent /\ ev.outcome = "fallback"
    /\ log = <<"start_playback">> /\ play.ret = FALSE

\* an authorization failure leaves the loop running, with no start_playback call
C20_WitnessLoopGoesOn ==
    /\ pc = "frame" /\ CaptureEvent /\ ev.outcome = "authorization failed"
    /\ log = <<>> /\ play = PlayIdle

=============================================================================
